---------------------------- MODULE Spec2Model ----------------------------
(***************************************************************************)
(* A model of freezetag/freezefs.py: the FreezeFS index (path_map,         *)
(* checksum_map, abs_path_map, freezetag_map, inactive_freezetags), the    *)
(* PoliteLRUCache of decoded freezetags with its reference records and     *)
(* keep-alive timers, the FUSE operations and the watchdog handlers.       *)
(*                                                                         *)
(* Python objects that are shared by reference (FrozenItem) live in a heap *)
(* `items` and are named by an id; everything else is a value.  A handler  *)
(* is an operator from a program state (a record `s`) to a program state;  *)
(* an exception raised inside it is recorded in s.exc and stops the rest   *)
(* of the handler, leaving the effects made so far.                        *)
(***************************************************************************)
EXTENDS Integers, Sequences, FiniteSets, TLC

VARIABLES
    files,                \* the watched directory: content path -> raw checksum, or "none"
    ftags,                \* the watched directory: .ftag path -> freezetag content, or "none"
    path_map,             \* FreezeFS.path_map
    checksum_map,         \* FreezeFS.checksum_map: checksum -> item id
    abs_path_map,         \* FreezeFS.abs_path_map: content path -> item id
    freezetag_map,        \* FreezeFS.freezetag_map: .ftag path -> [root, checksums]
    inactive_freezetags,  \* FreezeFS.inactive_freezetags: sequence of [root, path]
    items,                \* the FrozenItem objects: id -> [checksum, freezetags, files]
    freezetag_cache,      \* FreezeFS.freezetag_cache: sequence of [key, value], oldest first
    freezetag_refs,       \* FreezeFS.freezetag_refs: .ftag path -> [timer, count]
    timers,               \* started, not fired, not cancelled Timer objects per .ftag path
    fh_map,               \* FreezeFS.fh_map: handle -> [file, metadata, freezetag_path]
    scan,                 \* the main thread: [pc, todo]
    quota,                \* watcher events and open requests the model still follows
    observer,             \* the handler the observer thread is in, and its event
    last                  \* the last operation and how it ended

vars == <<files, ftags, path_map, checksum_map, abs_path_map, freezetag_map,
          inactive_freezetags, items, freezetag_cache, freezetag_refs, timers,
          fh_map, scan, quota, observer, last>>

---------------------------------------------------------------------------
(* Bounds of the model and the inputs it draws from.                       *)

\* Handles that may be open at once.
MaxHandles == 2

\* Watcher events and open requests the model follows from construction on.
MaxEvents == 2

\* Requests and events the model follows once the directory is mounted.
MaxMounted == 3

\* Requests and events the model follows where timers are sure to fire.
MaxLive == 1

\* PoliteLRUCache.maxsize as the model runs it (FreezeFS passes
\* FREEZETAG_CACHE_LIMIT = 10, line 33, to a cache whose code is the same
\* for every maxsize).
maxsize == 2

ContentPaths == {"a.flac", "b.flac"}
FtagPaths == {"p.ftag", "q.ftag", "r.ftag"}
\* The raw checksums the content files of the directory may have; b.flac
\* has the first or is absent.
ContentChecksums == {"X", "Y"}

\* walk_dir yields the files of a directory in sorted order.
ScanOrder == <<"a.flac", "b.flac", "p.ftag", "q.ftag", "r.ftag">>

None == "None"

\* One metadata block: length and bytes.
Block(b) == [len |-> 1, bytes |-> b]

\* The freezetag files the directory may hold (freezetag.data.frozen):
\* root, and per file its path under the root, checksum and metadata.
\* T1 lists one content twice, T2 lists nothing, T3 lists one path twice.
Freezetags ==
    [c \in {"T1", "T2", "T3"} |->
        CASE c = "T1" ->
               [root |-> <<"A">>,
                files |-> << [path |-> <<"1">>, checksum |-> "X", metadata |-> <<Block("m1")>>],
                             [path |-> <<"2">>, checksum |-> "X", metadata |-> <<Block("m2")>>] >>]
          [] c = "T2" ->
               [root |-> <<"A">>, files |-> <<>>]
          [] c = "T3" ->
               [root |-> <<"B">>,
                files |-> << [path |-> <<"1">>, checksum |-> "X", metadata |-> <<>>],
                             [path |-> <<"1">>, checksum |-> "Y", metadata |-> <<Block("m3")>>] >>]]

FtagContents == DOMAIN Freezetags

\* The virtual paths FUSE asks for.
VirtualPaths ==
    { <<"/">>, <<"/", "A">>, <<"/", "B">>,
      <<"/", "A", "1">>, <<"/", "A", "2">>, <<"/", "B", "1">> }

---------------------------------------------------------------------------
(* Dictionaries and lists.                                                 *)

Put(f, k, v) == [x \in DOMAIN f \cup {k} |-> IF x = k THEN v ELSE f[x]]

Del(f, k) == [x \in DOMAIN f \ {k} |-> f[x]]

EmptyDict == [x \in {} |-> None]

RemoveAt(seq, i) == SubSeq(seq, 1, i - 1) \o SubSeq(seq, i + 1, Len(seq))

Range(seq) == {seq[i] : i \in DOMAIN seq}

RECURSIVE SumLen(_)
SumLen(metadata) ==
    IF metadata = <<>> THEN 0 ELSE Head(metadata).len + SumLen(Tail(metadata))

---------------------------------------------------------------------------
(* The path tree: a node is a directory (a dict), a FrozenItem or None.    *)

DirNode(children) == [kind |-> "dir", ch |-> children]
ItemNode(id) == [kind |-> "item", id |-> id]
NoneNode == [kind |-> "none"]
ErrorNode == [kind |-> "TypeError"]

\* Python truth of what _get_item returns: None and the empty dict are false.
Truthy(node) ==
    \/ node.kind = "item"
    \/ node.kind = "dir" /\ DOMAIN node.ch # {}

RECURSIVE GetNode(_, _)
GetNode(node, parts) ==
    IF parts = <<>> THEN node
    ELSE IF node.kind # "dir" THEN ErrorNode
    ELSE IF Head(parts) \notin DOMAIN node.ch THEN NoneNode
    ELSE GetNode(node.ch[Head(parts)], Tail(parts))

get_item(s, path) == GetNode(s.path_map, path)

\* Lines 190-196: create the missing directories, then set the leaf.
RECURSIVE SetLeaf(_, _, _)
SetLeaf(node, parts, id) ==
    IF Len(parts) = 1 THEN DirNode(Put(node.ch, parts[1], ItemNode(id)))
    ELSE LET child == IF Head(parts) \in DOMAIN node.ch
                      THEN node.ch[Head(parts)]
                      ELSE DirNode(EmptyDict)
         IN  DirNode(Put(node.ch, Head(parts), SetLeaf(child, Tail(parts), id)))

\* Lines 292-296 walk down to the leaf; a missing part is a KeyError.
RECURSIVE HasPath(_, _)
HasPath(node, parts) ==
    IF parts = <<>> THEN TRUE
    ELSE /\ node.kind = "dir"
         /\ Head(parts) \in DOMAIN node.ch
         /\ HasPath(node.ch[Head(parts)], Tail(parts))

\* Lines 297-301: delete the leaf, then every parent left empty, the
\* entry "/" of path_map included.
RECURSIVE DelPath(_, _)
DelPath(node, parts) ==
    IF Len(parts) = 1 THEN DirNode(Del(node.ch, parts[1]))
    ELSE LET sub == DelPath(node.ch[Head(parts)], Tail(parts))
         IN  IF DOMAIN sub.ch = {}
             THEN DirNode(Del(node.ch, Head(parts)))
             ELSE DirNode(Put(node.ch, Head(parts), sub))

RECURSIVE Leaves(_)
Leaves(node) ==
    IF node.kind = "item" THEN {node.id}
    ELSE IF node.kind = "dir"
         THEN UNION {Leaves(node.ch[k]) : k \in DOMAIN node.ch}
         ELSE {}

---------------------------------------------------------------------------
(* FrozenItem objects.                                                     *)

FrozenItem(checksum) == [checksum |-> checksum, freezetags |-> <<>>, files |-> <<>>]

FrozenItemFreezetagEntry(freezetag_path, path, metadata_len) ==
    [freezetag_path |-> freezetag_path, path |-> path, metadata_len |-> metadata_len]

FrozenItemFileEntry(path) == [path |-> path]

\* Object names.  The item registered in checksum_map under a checksum is
\* named by the checksum's place in ChecksumOrder.  An unregistered item
\* with both lists empty that no thread holds in a local variable never
\* changes again: such objects differ in nothing but their address, and
\* those of one checksum share one name (DeadId).  Any other unregistered
\* item gets a name of its own (FreshId).
ChecksumOrder == <<"X", "Y">>

LiveId(checksum) == CHOOSE i \in DOMAIN ChecksumOrder : ChecksumOrder[i] = checksum

DeadId(checksum) == LiveId(checksum) + Len(ChecksumOrder)

FreshId(s, checksum) ==
    LET free == {k \in 2..(Cardinality(DOMAIN s.items) + 2) :
                    LiveId(checksum) + k * Len(ChecksumOrder) \notin DOMAIN s.items}
    IN  LiveId(checksum) + Len(ChecksumOrder) * (CHOOSE k \in free : \A j \in free : k <= j)

RECURSIVE Rename(_, _, _)
Rename(node, id, new) ==
    IF node.kind = "item" THEN (IF node.id = id THEN ItemNode(new) ELSE node)
    ELSE IF node.kind = "dir"
         THEN DirNode([k \in DOMAIN node.ch |-> Rename(node.ch[k], id, new)])
         ELSE node

\* del self.checksum_map[item.checksum] (line 289): the key of the item's
\* checksum goes, whichever object is registered under it.
Unregister(s, id) ==
    LET c == s.items[id].checksum
        old == s.checksum_map[c]
        gone == s.items[old]
        new == IF old # s.local /\ gone.freezetags = <<>> /\ gone.files = <<>>
               THEN DeadId(c)
               ELSE FreshId(s, c)
    IN  [s EXCEPT !.checksum_map = Del(@, c),
                  !.items = Put(Del(@, old), new, gone),
                  !.abs_path_map = [p \in DOMAIN @ |-> IF @[p] = old THEN new ELSE @[p]],
                  !.path_map = Rename(@, old, new),
                  !.local = IF @ = old THEN new ELSE @]

\* The objects still referenced by a map, by the tree or by the local
\* variable of the main thread; the rest is collected.
Referenced(s) ==
    Range(s.checksum_map) \cup Range(s.abs_path_map) \cup Leaves(s.path_map)
        \cup ({s.local} \ {0})

Collect(s) ==
    [s EXCEPT !.items = [i \in DOMAIN s.items \cap Referenced(s) |-> s.items[i]]]

Raise(s, e) == [s EXCEPT !.exc = e]

\* Lines 180-184 and 199-203: the item of a checksum, created when new.
WithItem(s, checksum) ==
    IF checksum \in DOMAIN s.checksum_map THEN s
    ELSE LET id == LiveId(checksum)
         IN  [s EXCEPT !.items = Put(s.items, id, FrozenItem(checksum)),
                       !.checksum_map = Put(s.checksum_map, checksum, id)]

\* Lines 179-196.
add_freezetag_entry(s, checksum, entry) ==
    LET s1 == WithItem(s, checksum)
        id == s1.checksum_map[checksum]
        s2 == [s1 EXCEPT !.items[id].freezetags = Append(@, entry)]
    IN  IF Truthy(get_item(s2, entry.path))
        THEN Raise(s2, "AssertionError")
        ELSE [s2 EXCEPT !.path_map = SetLeaf(@, entry.path, id)]

\* Lines 198-206.
add_path_entry(s, checksum, entry) ==
    LET s1 == WithItem(s, checksum)
        id == s1.checksum_map[checksum]
    IN  [s1 EXCEPT !.items[id].files = Append(@, entry),
                   !.abs_path_map = Put(@, entry.path, id)]

\* Lines 287-304.  fuse_path is <<>> and file_path is None when not given.
delete_if_dangling(s, id, fuse_path, file_path) ==
    LET item == s.items[id]
        dead == item.freezetags = <<>> /\ item.files = <<>>
        claimed == \E i \in DOMAIN item.freezetags : item.freezetags[i].path = fuse_path
    IN  IF dead /\ item.checksum \notin DOMAIN s.checksum_map
        THEN Raise(s, "KeyError")
        ELSE
        LET s1 == IF dead THEN Unregister(s, id) ELSE s
        IN  IF fuse_path # <<>> /\ ~claimed /\ ~HasPath(s1.path_map, fuse_path)
            THEN Raise(s1, "KeyError")
            ELSE
            LET s2 == IF fuse_path # <<>> /\ ~claimed
                      THEN [s1 EXCEPT !.path_map = DelPath(@, fuse_path)]
                      ELSE s1
            IN  IF file_path # None /\ item.files = <<>>
                THEN IF file_path \in DOMAIN s2.abs_path_map
                     THEN [s2 EXCEPT !.abs_path_map = Del(@, file_path)]
                     ELSE Raise(s2, "KeyError")
                ELSE s2

---------------------------------------------------------------------------
(* PoliteLRUCache and the reference records.                               *)

InCache(cache, key) == \E i \in DOMAIN cache : cache[i].key = key

CacheIndex(cache, key) == CHOOSE i \in DOMAIN cache : cache[i].key = key

CacheDel(cache, key) == RemoveAt(cache, CacheIndex(cache, key))

move_to_end(cache, key) ==
    LET i == CacheIndex(cache, key) IN Append(RemoveAt(cache, i), cache[i])

\* A pin predicate that ignores the open count.
can_purge_any(refs, path) == TRUE

\* Lines 306-311.
can_purge_ftag(refs, path) ==
    IF path \notin DOMAIN refs THEN TRUE ELSE refs[path].count <= 0

\* Lines 60-65: the loop runs len(self) - maxsize times, counted once
\* before it starts.
RECURSIVE EvictLoop(_, _, _)
EvictLoop(cache, refs, n) ==
    IF n = 0 THEN cache
    ELSE LET oldest == cache[1].key
         IN  IF can_purge_ftag(refs, oldest)
             THEN CacheDel(cache, oldest)
             ELSE EvictLoop(move_to_end(cache, oldest), refs, n - 1)

\* Lines 57-65.
cache_setitem(cache, refs, key, value) ==
    LET c1 == IF InCache(cache, key)
              THEN [cache EXCEPT ![CacheIndex(cache, key)].value = value]
              ELSE Append(cache, [key |-> key, value |-> value])
    IN  IF Len(c1) > maxsize THEN EvictLoop(c1, refs, Len(c1) - maxsize) ELSE c1

Keys(cache) == {cache[i].key : i \in DOMAIN cache}

\* The open count of a path: 0 without a reference record.
Count(refs, path) == IF path \in DOMAIN refs THEN refs[path].count ELSE 0

\* What an operation removed from the cache, why, and the open count of
\* the path at that moment.
Evicted(s, keys, by) ==
    [s EXCEPT !.log = @ \cup
        {[key |-> k, by |-> by, count |-> Count(s.freezetag_refs, k),
          handles |-> Cardinality({fh \in DOMAIN s.fh_map : s.fh_map[fh].freezetag_path = k})] :
         k \in keys}]

\* Freezetag.from_path: the decoded file, or a failure (a missing file,
\* or a read that fails: io = "load_fails").
from_path(s, path, io) ==
    IF io = "load_fails" \/ s.ftags[path] = "none"
    THEN None
    ELSE s.ftags[path]

\* Lines 50-55: the value is left in s.ret; a failing getter leaves the
\* cache as it was.
cache_getitem(s, key, io) ==
    IF InCache(s.freezetag_cache, key)
    THEN [s EXCEPT !.ret = s.freezetag_cache[CacheIndex(s.freezetag_cache, key)].value,
                   !.freezetag_cache = move_to_end(@, key)]
    ELSE LET v == from_path(s, key, io)
         IN  IF v = None THEN Raise(s, "LoadError")
             ELSE LET c1 == cache_setitem(s.freezetag_cache, s.freezetag_refs, key, v)
                      gone == Keys(s.freezetag_cache) \ Keys(c1)
                  IN  [Evicted(s, gone, "capacity") EXCEPT
                           !.ret = v, !.freezetag_cache = move_to_end(c1, key),
                           !.inserted = @ \cup {key}]

\* Lines 313-323.  A record dropped while its timer is pending leaves the
\* timer running.
purge_ftag(s, path, force) ==
    LET no_refs == path \in DOMAIN s.freezetag_refs /\ s.freezetag_refs[path].count <= 0
        s1 == IF (force \/ no_refs) /\ InCache(s.freezetag_cache, path)
              THEN [Evicted(s, {path}, IF force THEN "force" ELSE "timer") EXCEPT
                        !.freezetag_cache = CacheDel(@, path)]
              ELSE s
    IN  IF no_refs THEN [s1 EXCEPT !.freezetag_refs = Del(@, path)] ELSE s1

\* Lines 325-337.  Timer.cancel() stops a pending timer and does nothing
\* to one that has fired.
schedule_purge_ftag(s, path) ==
    LET started == [s EXCEPT !.timers[path] = @ + 1]
    IN  IF path \notin DOMAIN s.freezetag_refs
        THEN [started EXCEPT !.freezetag_refs =
                                 Put(@, path, [timer |-> "pending", count |-> 0])]
        ELSE LET timer == s.freezetag_refs[path].timer
                 s1 == IF timer = "pending"
                       THEN [started EXCEPT !.timers[path] = @ - 1]
                       ELSE started
             IN  [s1 EXCEPT !.freezetag_refs[path].timer = "pending"]

---------------------------------------------------------------------------
(* Scan and watcher helpers.                                               *)

\* Lines 240-246, from record i of the decoded freezetag on.
RECURSIVE AddFtagFiles(_, _, _, _)
AddFtagFiles(s, path, freezetag, i) ==
    IF s.exc # None \/ i > Len(freezetag.files) THEN s
    ELSE LET state == freezetag.files[i]
             fuse_path == <<"/">> \o freezetag.root \o state.path
             metadata_len == SumLen(state.metadata)
             entry == FrozenItemFreezetagEntry(path, fuse_path, metadata_len)
             s1 == add_freezetag_entry(s, state.checksum, entry)
         IN  IF s1.exc # None THEN s1
             ELSE AddFtagFiles(
                      [s1 EXCEPT !.freezetag_map[path].checksums = Append(@, state.checksum)],
                      path, freezetag, i + 1)

\* Lines 216-246.  A freezetag that cannot be loaded is reported and
\* skipped: no exception leaves the function.
add_ftag(s, path) ==
    LET s1 == cache_getitem(s, path, "ok")
    IN  IF s1.exc # None THEN Raise(s1, None)
        ELSE
        LET s2 == schedule_purge_ftag(s1, path)
            freezetag == Freezetags[s1.ret]
            root == <<"/">> \o freezetag.root
        IN  IF Truthy(get_item(s2, root))
            THEN [s2 EXCEPT !.inactive_freezetags = Append(@, [root |-> root, path |-> path])]
            ELSE AddFtagFiles(
                     [s2 EXCEPT !.freezetag_map =
                                    Put(@, path, [root |-> root, checksums |-> <<>>])],
                     path, freezetag, 1)

\* Lines 248-285: a file that cannot be stat'ed is skipped; its checksum
\* is what ChecksumDB or ParsedFile gives for its content.
add_file(s, src) ==
    IF s.files[src] = "none" THEN s
    ELSE add_path_entry(s, s.files[src], FrozenItemFileEntry(src))

\* Lines 477-480: the first inactive tag of the path is given the new path.
RenameInactive(inactive, src, dst) ==
    IF \E i \in DOMAIN inactive : inactive[i].path = src
    THEN LET i == CHOOSE i \in DOMAIN inactive :
                      /\ inactive[i].path = src
                      /\ \A j \in 1..(i - 1) : inactive[j].path # src
         IN  [inactive EXCEPT ![i].path = dst]
    ELSE inactive

\* Lines 536-539: the first inactive tag of the path is removed.
RemoveInactive(inactive, path) ==
    IF \E i \in DOMAIN inactive : inactive[i].path = path
    THEN LET i == CHOOSE i \in DOMAIN inactive :
                      /\ inactive[i].path = path
                      /\ \A j \in 1..(i - 1) : inactive[j].path # path
         IN  RemoveAt(inactive, i)
    ELSE inactive

\* The index of the first freezetag entry of an item that came from the
\* freezetag at path, or 0.
EntryOf(item, path) ==
    IF \E i \in DOMAIN item.freezetags : item.freezetags[i].freezetag_path = path
    THEN CHOOSE i \in DOMAIN item.freezetags :
             /\ item.freezetags[i].freezetag_path = path
             /\ \A j \in 1..(i - 1) : item.freezetags[j].freezetag_path # path
    ELSE 0

\* Lines 486-491, from checksum i of the list on.
RECURSIVE RenameEntries(_, _, _, _, _)
RenameEntries(s, checksums, src, dst, i) ==
    IF i > Len(checksums) THEN s
    ELSE IF checksums[i] \notin DOMAIN s.checksum_map THEN Raise(s, "KeyError")
    ELSE LET id == s.checksum_map[checksums[i]]
             k == EntryOf(s.items[id], src)
             s1 == IF k = 0 THEN s
                   ELSE [s EXCEPT !.items[id].freezetags[k].freezetag_path = dst]
         IN  RenameEntries(s1, checksums, src, dst, i + 1)

\* Lines 542-548, from checksum i of the list on.
RECURSIVE RemoveEntries(_, _, _, _)
RemoveEntries(s, checksums, path, i) ==
    IF s.exc # None \/ i > Len(checksums) THEN s
    ELSE IF checksums[i] \notin DOMAIN s.checksum_map THEN Raise(s, "KeyError")
    ELSE LET id == s.checksum_map[checksums[i]]
             k == EntryOf(s.items[id], path)
             s1 == IF k = 0 THEN s
                   ELSE delete_if_dangling(
                            [s EXCEPT !.items[id].freezetags = RemoveAt(@, k)],
                            id, s.items[id].freezetags[k].path, None)
         IN  RemoveEntries(s1, checksums, path, i + 1)

\* Lines 551-556: the first inactive tag of the root is removed and added.
Promote(s, root) ==
    IF \E i \in DOMAIN s.inactive_freezetags : s.inactive_freezetags[i].root = root
    THEN LET i == CHOOSE i \in DOMAIN s.inactive_freezetags :
                      /\ s.inactive_freezetags[i].root = root
                      /\ \A j \in 1..(i - 1) : s.inactive_freezetags[j].root # root
         IN  add_ftag([s EXCEPT !.inactive_freezetags = RemoveAt(@, i)],
                      s.inactive_freezetags[i].path)
    ELSE s

---------------------------------------------------------------------------
(* watchdog handlers.  The state they are given holds the directory as it  *)
(* is after the change the event reports.                                  *)

IsFtag(path) == path \in FtagPaths

\* A rename handler that stores the item under the new path and leaves the
\* old key and the file entries as they are.
on_moved_copying(s, src, dst) ==
    IF IsFtag(src) \/ src \notin DOMAIN s.abs_path_map THEN s
    ELSE [s EXCEPT !.abs_path_map = Put(@, dst, s.abs_path_map[src])]

\* Lines 464-500.
on_moved(s, src, dst) ==
    IF IsFtag(src)
    THEN LET s1 == purge_ftag(s, src, TRUE)
         IN  IF src \notin DOMAIN s1.freezetag_map
             THEN [s1 EXCEPT !.inactive_freezetags = RenameInactive(@, src, dst)]
             ELSE LET fm == s1.freezetag_map[src]
                      s2 == [s1 EXCEPT !.freezetag_map = Put(Del(@, src), dst, fm)]
                  IN  RenameEntries(s2, fm.checksums, src, dst, 1)
    ELSE IF src \notin DOMAIN s.abs_path_map THEN Raise(s, "KeyError")
    ELSE LET id == s.abs_path_map[src]
         IN  [s EXCEPT !.abs_path_map = Put(Del(@, src), dst, id),
                       !.items[id].files =
                           [i \in DOMAIN @ |-> IF @[i].path = src
                                               THEN [@[i] EXCEPT !.path = dst]
                                               ELSE @[i]]]

\* Lines 502-511.
on_created(s, path) ==
    IF s.exc # None THEN s
    ELSE IF IsFtag(path) THEN add_ftag(s, path)
    ELSE add_file(s, path)

\* Lines 513-556.
on_deleted(s, path) ==
    IF ~IsFtag(path)
    THEN IF path \notin DOMAIN s.abs_path_map THEN s
         ELSE LET id == s.abs_path_map[path]
                  fs == s.items[id].files
              IN  IF \E i \in DOMAIN fs : fs[i].path = path
                  THEN LET k == CHOOSE i \in DOMAIN fs :
                                    /\ fs[i].path = path
                                    /\ \A j \in 1..(i - 1) : fs[j].path # path
                       IN  delete_if_dangling(
                               [s EXCEPT !.items[id].files = RemoveAt(@, k)],
                               id, <<>>, path)
                  ELSE s
    ELSE LET s1 == purge_ftag(s, path, TRUE)
         IN  IF path \notin DOMAIN s1.freezetag_map
             THEN [s1 EXCEPT !.inactive_freezetags = RemoveInactive(@, path)]
             ELSE LET fm == s1.freezetag_map[path]
                      s2 == RemoveEntries(s1, fm.checksums, path, 1)
                  IN  IF s2.exc # None THEN s2
                      ELSE Promote([s2 EXCEPT !.freezetag_map = Del(@, path)], fm.root)

\* Lines 558-560.
on_modified(s, path) == on_created(on_deleted(s, path), path)

---------------------------------------------------------------------------
(* The program state as one record, and back.                              *)

State ==
    [files |-> files, ftags |-> ftags, path_map |-> path_map,
     checksum_map |-> checksum_map, abs_path_map |-> abs_path_map,
     freezetag_map |-> freezetag_map, inactive_freezetags |-> inactive_freezetags,
     items |-> items, freezetag_cache |-> freezetag_cache,
     freezetag_refs |-> freezetag_refs, timers |-> timers, fh_map |-> fh_map,
     exc |-> None, ret |-> None, log |-> {}, inserted |-> {},
     local |-> scan.item]

Commit(s0) ==
    LET s == Collect(s0)
    IN  /\ files' = s.files
        /\ ftags' = s.ftags
        /\ path_map' = s.path_map
        /\ checksum_map' = s.checksum_map
        /\ abs_path_map' = s.abs_path_map
        /\ freezetag_map' = s.freezetag_map
        /\ inactive_freezetags' = s.inactive_freezetags
        /\ items' = s.items
        /\ freezetag_cache' = s.freezetag_cache
        /\ freezetag_refs' = s.freezetag_refs
        /\ timers' = s.timers
        /\ fh_map' = s.fh_map

Done(op, s) ==
    last' = [op |-> op, res |-> IF s.exc # None THEN s.exc ELSE s.ret,
             evicted |-> s.log, inserted |-> s.inserted]

---------------------------------------------------------------------------
(* Construction (lines 90-141), the observer started and the directory,   *)
(* which may hold any files, listed (lines 144-149).                       *)

Exists(path) == IF IsFtag(path) THEN ftags[path] # "none" ELSE files[path] # "none"

Init ==
    /\ files \in {f \in [ContentPaths -> ContentChecksums \cup {"none"}] : f["b.flac"] # "Y"}
    /\ ftags \in {f \in [FtagPaths -> FtagContents \cup {"none"}] : f["r.ftag"] = "none"}
    /\ path_map = DirNode([k \in {"/"} |-> DirNode(EmptyDict)])
    /\ checksum_map = EmptyDict
    /\ abs_path_map = EmptyDict
    /\ freezetag_map = EmptyDict
    /\ inactive_freezetags = <<>>
    /\ items = EmptyDict
    /\ freezetag_cache = <<>>
    /\ freezetag_refs = EmptyDict
    /\ timers = [p \in FtagPaths |-> 0]
    /\ fh_map = EmptyDict
    /\ scan = [pc |-> "walk", todo |-> SelectSeq(ScanOrder, Exists), item |-> 0]
    /\ quota = MaxEvents
    /\ observer = [pc |-> "idle", path |-> None]
    /\ last = [op |-> "init", res |-> None, evicted |-> {}, inserted |-> {}]

---------------------------------------------------------------------------
(* The main thread: mount (lines 143-170).                                 *)

\* Lines 149-153: one file of the listing.  An exception ends mount and
\* with it the process.
ScanStep ==
    /\ scan.pc = "walk"
    /\ scan.todo # <<>>
    /\ scan.item = 0
    /\ LET path == Head(scan.todo)
           s == IF IsFtag(path) THEN add_ftag(State, path) ELSE add_file(State, path)
       IN  /\ Commit(s)
           /\ scan' = [pc |-> IF s.exc # None THEN "crashed" ELSE "walk",
                       todo |-> Tail(scan.todo), item |-> 0]
           /\ Done("scan", [s EXCEPT !.ret = None])
    /\ UNCHANGED <<quota, observer>>

\* Lines 154-170: the scan is over and FUSE serves requests on this thread.
Mount ==
    /\ scan.pc = "walk"
    /\ scan.todo = <<>>
    /\ scan' = [scan EXCEPT !.pc = "fuse"]
    /\ Done("mount", State)
    /\ UNCHANGED <<files, ftags, path_map, checksum_map, abs_path_map, freezetag_map,
                   inactive_freezetags, items, freezetag_cache, freezetag_refs, timers,
                   fh_map, quota, observer>>

---------------------------------------------------------------------------
(* The observer thread: a change of the directory and the handler of its   *)
(* event.                                                                  *)

Idle == [pc |-> "idle", path |-> None]

\* An exception that leaves a handler ends the observer thread, which
\* catches nothing but queue.Empty around the dispatch of an event.
Dead == [pc |-> "dead", path |-> None]

Survives(s) == observer' = IF s.exc # None THEN Dead ELSE observer

\* The item the main thread holds in a local variable is the same object
\* after a handler ran.
Held(s) == scan' = [scan EXCEPT !.item = s.local]

Watching == scan.pc # "crashed" /\ quota > 0 /\ observer = Idle

Created(path, content) ==
    /\ Watching
    /\ ~Exists(path)
    /\ LET s0 == IF IsFtag(path)
                 THEN [State EXCEPT !.ftags[path] = content]
                 ELSE [State EXCEPT !.files[path] = content]
           s == on_created(s0, path)
       IN  Commit(s) /\ Done("watcher", [s EXCEPT !.ret = None]) /\ Held(s) /\ Survives(s)
    /\ quota' = quota - 1

Deleted(path) ==
    /\ Watching
    /\ Exists(path)
    /\ LET s0 == IF IsFtag(path)
                 THEN [State EXCEPT !.ftags[path] = "none"]
                 ELSE [State EXCEPT !.files[path] = "none"]
           s == on_deleted(s0, path)
       IN  Commit(s) /\ Done("watcher", [s EXCEPT !.ret = None]) /\ Held(s) /\ Survives(s)
    /\ quota' = quota - 1

\* A rename inside the directory, onto a free name or over a file.
Moved(src, dst) ==
    /\ Watching
    /\ Exists(src)
    /\ src # dst
    /\ IsFtag(src) = IsFtag(dst)
    /\ LET s0 == IF IsFtag(src)
                 THEN [State EXCEPT !.ftags[dst] = ftags[src], !.ftags[src] = "none"]
                 ELSE [State EXCEPT !.files[dst] = files[src], !.files[src] = "none"]
           s == on_moved(s0, src, dst)
       IN  Commit(s) /\ Done("watcher", [s EXCEPT !.ret = None]) /\ Held(s) /\ Survives(s)
    /\ quota' = quota - 1

Modified(path, content) ==
    /\ Watching
    /\ Exists(path)
    /\ LET s0 == IF IsFtag(path)
                 THEN [State EXCEPT !.ftags[path] = content]
                 ELSE [State EXCEPT !.files[path] = content]
           s == on_modified(s0, path)
       IN  Commit(s) /\ Done("watcher", [s EXCEPT !.ret = None]) /\ Held(s) /\ Survives(s)
    /\ quota' = quota - 1

\* What an event may leave at a path.
Contents(path) ==
    IF path = "r.ftag" THEN {"T1"}
    ELSE IF IsFtag(path) THEN FtagContents
    ELSE IF path = "b.flac" THEN {"X"}
    ELSE ContentChecksums

Watcher ==
    \E path \in ContentPaths \cup FtagPaths :
        \/ \E content \in Contents(path) : Created(path, content)
        \/ Deleted(path)
        \/ \E dst \in ContentPaths \cup FtagPaths : Moved(path, dst)
        \/ \E content \in Contents(path) : Modified(path, content)

---------------------------------------------------------------------------
(* Timer threads: a pending timer of a path fires and runs                 *)
(* _purge_ftag(path, force=False) (line 328) under freezetag_ref_lock.     *)

\* The timer the reference record holds.
TimerFires(path) ==
    /\ scan.pc # "crashed"
    /\ path \in DOMAIN freezetag_refs
    /\ freezetag_refs[path].timer = "pending"
    /\ LET s0 == [State EXCEPT !.timers[path] = @ - 1,
                               !.freezetag_refs[path].timer = "fired"]
           s == purge_ftag(s0, path, FALSE)
       IN  Commit(s) /\ Done("timer", s)
    /\ UNCHANGED <<scan, quota, observer>>

\* A timer whose reference record was dropped or replaced without cancel.
StrayTimerFires(path) ==
    /\ scan.pc # "crashed"
    /\ timers[path] >
           (IF path \in DOMAIN freezetag_refs /\ freezetag_refs[path].timer = "pending"
            THEN 1 ELSE 0)
    /\ LET s == purge_ftag([State EXCEPT !.timers[path] = @ - 1], path, FALSE)
       IN  Commit(s) /\ Done("timer", s)
    /\ UNCHANGED <<scan, quota, observer>>

Timer == \E path \in FtagPaths : TimerFires(path) \/ StrayTimerFires(path)

---------------------------------------------------------------------------
(* FUSE operations, served one at a time on the main thread once mounted.  *)

Live(item) == item.freezetags # <<>> /\ item.files # <<>>

\* The index of the first freezetag entry of an item at a virtual path, or 0.
FrozenEntry(item, path) ==
    IF \E i \in DOMAIN item.freezetags : item.freezetags[i].path = path
    THEN CHOOSE i \in DOMAIN item.freezetags :
             /\ item.freezetags[i].path = path
             /\ \A j \in 1..(i - 1) : item.freezetags[j].path # path
    ELSE 0

\* Lines 342-374: what getattr returns or raises.  Path.stat() of a file
\* that is gone raises FileNotFoundError, an OSError whose errno is ENOENT.
getattr(s, path) ==
    LET node == get_item(s, path)
    IN  IF node.kind = "none" THEN "ENOENT"
        ELSE IF node.kind = "item"
        THEN LET item == s.items[node.id]
             IN  IF ~Live(item) THEN "ENOENT"
                 ELSE IF FrozenEntry(item, path) = 0 THEN "ENOENT"
                 ELSE IF s.files[item.files[1].path] = "none" THEN "ENOENT"
                 ELSE "st_file"
        ELSE "st_dir"

\* Lines 376-382: the names readdir yields after "." and "..", or the
\* exception of calling items() on what is no dict.
readdir(s, path) ==
    LET node == get_item(s, path)
    IN  IF node.kind # "dir" THEN {"AttributeError"}
        ELSE {name \in DOMAIN node.ch :
                 node.ch[name].kind = "item" => Live(s.items[node.ch[name].id])}

\* Lines 425-431: the metadata of the first record of the freezetag with
\* the item's checksum and the target path; <<>> stands for None.
FindMetadata(freezetag, checksum, target_path) ==
    LET fs == freezetag.files
        hit(i) == fs[i].checksum = checksum /\ fs[i].path = target_path
    IN  IF \E i \in DOMAIN fs : hit(i)
        THEN fs[CHOOSE i \in DOMAIN fs : hit(i) /\ \A j \in 1..(i - 1) : ~hit(j)].metadata
        ELSE <<>>

NewFh(s) == CHOOSE fh \in 1..MaxHandles : fh \notin DOMAIN s.fh_map

\* Lines 433-442: FuseFile.from_info opens the content file, which fails
\* when the file is gone or cannot be opened (io = "file_fails").
Bind(s, file_entry, metadata, freezetag_path, io) ==
    IF io = "file_fails" \/ s.files[file_entry.path] = "none"
    THEN Raise(s, "OSError")
    ELSE LET fh == NewFh(s)
         IN  [s EXCEPT !.fh_map = Put(@, fh, [file |-> file_entry.path,
                                              metadata |-> metadata,
                                              freezetag_path |-> freezetag_path]),
                       !.ret = "fh"]

\* Lines 387-442.
open(s, path, io) ==
    LET node == get_item(s, path)
    IN  IF ~Truthy(node) THEN Raise(s, "ENOENT")
        ELSE IF node.kind = "dir" THEN Raise(s, "AttributeError")
        ELSE
        LET item == s.items[node.id]
            k == FrozenEntry(item, path)
        IN  IF item.files = <<>> THEN Raise(s, "IndexError")
            ELSE IF k = 0 THEN Raise(s, "ENOENT")
            ELSE
            LET file_entry == item.files[1]
                frozen_entry == item.freezetags[k]
                target_path == SubSeq(frozen_entry.path, 3, Len(frozen_entry.path))
            IN  IF frozen_entry.metadata_len = 0
                THEN Bind(s, file_entry, <<>>, None, io)
                ELSE
                LET freezetag_path == frozen_entry.freezetag_path
                    s1 == IF freezetag_path \in DOMAIN s.freezetag_refs THEN s
                          ELSE [s EXCEPT !.freezetag_refs =
                                             Put(@, freezetag_path,
                                                 [timer |-> None, count |-> 0])]
                    s2 == [s1 EXCEPT !.freezetag_refs[freezetag_path].count = @ + 1]
                    s3 == cache_getitem(s2, freezetag_path, io)
                IN  IF s3.exc # None THEN s3
                    ELSE Bind(s3, file_entry,
                              FindMetadata(Freezetags[s3.ret], item.checksum, target_path),
                              freezetag_path, io)

\* Lines 447-459.
release(s, fh) ==
    LET freezetag_path == s.fh_map[fh].freezetag_path
    IN  IF freezetag_path = None THEN [s EXCEPT !.fh_map = Del(@, fh)]
        ELSE IF freezetag_path \notin DOMAIN s.freezetag_refs THEN Raise(s, "KeyError")
        ELSE LET s1 == [s EXCEPT !.freezetag_refs[freezetag_path].count = @ - 1]
                 s2 == schedule_purge_ftag(s1, freezetag_path)
             IN  [s2 EXCEPT !.fh_map = Del(@, fh)]

Mounted == scan.pc = "fuse"

Getattr(path) ==
    /\ Mounted
    /\ getattr(State, path) \in {"ENOENT", "st_file", "st_dir"}
    /\ UNCHANGED vars

Readdir(path) ==
    /\ Mounted
    /\ readdir(State, path) \subseteq {"AttributeError", "/", "A", "B", "1", "2"}
    /\ UNCHANGED vars

Open(path, io) ==
    /\ Mounted
    /\ quota > 0
    /\ Cardinality(DOMAIN fh_map) < MaxHandles
    /\ LET s == open(State, path, io)
       IN  Commit(s) /\ Done("open", s)
    /\ quota' = quota - 1
    /\ UNCHANGED <<scan, observer>>

Release(fh) ==
    /\ Mounted
    /\ fh \in DOMAIN fh_map
    /\ LET s == release(State, fh)
       IN  Commit(s) /\ Done("release", s)
    /\ UNCHANGED <<scan, quota, observer>>

Fuse ==
    \/ \E path \in VirtualPaths :
           \/ Getattr(path)
           \/ Readdir(path)
           \/ \E io \in {"ok", "load_fails", "file_fails"} : Open(path, io)
    \/ \E fh \in 1..MaxHandles : Release(fh)

Next == ScanStep \/ Mount \/ Watcher \/ Timer \/ Fuse

Spec == Init /\ [][Next]_vars

---------------------------------------------------------------------------
(* The two threads at a finer grain: on_modified (lines 558-560) as its    *)
(* two calls, on_deleted and on_created, and the scan's _add_path_entry    *)
(* (lines 198-206) as the lookup of the item and the update of the item.   *)
(* Nothing in the code keeps the other thread from running in between.     *)

\* Lines 199-203 for the next file of the listing, a content file: the
\* item of its checksum, created when new, is held in the local variable
\* item.  A file that cannot be stat'ed is skipped (lines 249-253).
AddPathLookup ==
    /\ scan.pc = "walk"
    /\ scan.todo # <<>>
    /\ scan.item = 0
    /\ ~IsFtag(Head(scan.todo))
    /\ LET path == Head(scan.todo)
           s == IF files[path] = "none" THEN State ELSE WithItem(State, files[path])
       IN  /\ Commit(s) /\ Done("scan", s)
           /\ scan' = IF files[path] = "none"
                      THEN [scan EXCEPT !.todo = Tail(@)]
                      ELSE [scan EXCEPT !.item = s.checksum_map[files[path]]]
    /\ UNCHANGED <<quota, observer>>

\* Lines 205-206: the entry is appended to the item held and the item is
\* stored under the path.
AddPathAppend ==
    /\ scan.pc = "walk"
    /\ scan.item # 0
    /\ LET path == Head(scan.todo)
           s == [State EXCEPT !.items[scan.item].files = Append(@, FrozenItemFileEntry(path)),
                              !.abs_path_map = Put(@, path, scan.item),
                              !.local = 0]
       IN  Commit(s) /\ Done("scan", s)
    /\ scan' = [scan EXCEPT !.todo = Tail(@), !.item = 0]
    /\ UNCHANGED <<quota, observer>>

\* Lines 149-151 for a freezetag of the listing.
ScanFtag ==
    /\ scan.todo # <<>>
    /\ IsFtag(Head(scan.todo))
    /\ ScanStep

ScanSteps == AddPathLookup \/ AddPathAppend \/ ScanFtag

\* Line 559: the file changes and on_modified runs on_deleted.  An
\* exception ends the handler and the thread.
ModifiedDeleted(path, content) ==
    /\ Watching
    /\ Exists(path)
    /\ LET s0 == IF IsFtag(path)
                 THEN [State EXCEPT !.ftags[path] = content]
                 ELSE [State EXCEPT !.files[path] = content]
           s == on_deleted(s0, path)
       IN  /\ Commit(s) /\ Done("watcher", [s EXCEPT !.ret = None]) /\ Held(s)
           /\ observer' = IF s.exc # None THEN Dead
                          ELSE [pc |-> "on_created", path |-> path]
    /\ quota' = quota - 1

\* Line 560: on_modified runs on_created and returns.
ModifiedCreated ==
    /\ scan.pc # "crashed"
    /\ observer.pc = "on_created"
    /\ LET s == on_created(State, observer.path)
       IN  /\ Commit(s) /\ Done("watcher", [s EXCEPT !.ret = None]) /\ Held(s)
           /\ observer' = IF s.exc # None THEN Dead ELSE Idle
    /\ UNCHANGED quota

WatcherSteps ==
    \/ \E path \in ContentPaths \cup FtagPaths :
           \/ \E content \in Contents(path) : Created(path, content)
           \/ Deleted(path)
           \/ \E dst \in ContentPaths \cup FtagPaths : Moved(path, dst)
           \/ \E content \in Contents(path) : ModifiedDeleted(path, content)
    \/ ModifiedCreated

NextThreads == ScanSteps \/ Mount \/ WatcherSteps \/ Timer \/ Fuse

\* The directories with one freezetag at most when mount starts.
InitThreads == Init /\ ftags["q.ftag"] = "none"

SpecThreads == InitThreads /\ [][NextThreads]_vars

---------------------------------------------------------------------------
(* The program mounted on a directory of freezetags of one root, when no   *)
(* event arrived during the scan: the state lines 149-153 leave.           *)

RECURSIVE ScanAll(_, _)
ScanAll(s, todo) ==
    IF todo = <<>> \/ s.exc # None THEN s
    ELSE ScanAll(IF IsFtag(Head(todo)) THEN add_ftag(s, Head(todo))
                 ELSE add_file(s, Head(todo)),
                 Tail(todo))

MountedWith(n) ==
    /\ files = [f \in ContentPaths |-> IF f = "a.flac" THEN "X" ELSE "none"]
    /\ ftags \in {f \in [FtagPaths -> {"T1", "none"}] : f["p.ftag"] = "T1"}
    /\ LET empty == [files |-> files, ftags |-> ftags,
                     path_map |-> DirNode([k \in {"/"} |-> DirNode(EmptyDict)]),
                     checksum_map |-> EmptyDict, abs_path_map |-> EmptyDict,
                     freezetag_map |-> EmptyDict, inactive_freezetags |-> <<>>,
                     items |-> EmptyDict, freezetag_cache |-> <<>>,
                     freezetag_refs |-> EmptyDict, timers |-> [p \in FtagPaths |-> 0],
                     fh_map |-> EmptyDict, exc |-> None, ret |-> None, log |-> {}, inserted |-> {}, local |-> 0]
           s == Collect(ScanAll(empty, SelectSeq(ScanOrder, Exists)))
       IN  /\ path_map = s.path_map
           /\ checksum_map = s.checksum_map
           /\ abs_path_map = s.abs_path_map
           /\ freezetag_map = s.freezetag_map
           /\ inactive_freezetags = s.inactive_freezetags
           /\ items = s.items
           /\ freezetag_cache = s.freezetag_cache
           /\ freezetag_refs = s.freezetag_refs
           /\ timers = s.timers
           /\ fh_map = s.fh_map
    /\ scan = [pc |-> "fuse", todo |-> <<>>, item |-> 0]
    /\ quota = n
    /\ observer = [pc |-> "idle", path |-> None]
    /\ last = [op |-> "mount", res |-> None, evicted |-> {}, inserted |-> {}]

InitMounted == MountedWith(MaxMounted)

NextMounted == Watcher \/ Timer \/ Fuse

SpecMounted == InitMounted /\ [][NextMounted]_vars

\* threading.Timer runs its function FREEZETAG_KEEPALIVE_TIME seconds after
\* start() unless cancelled: a pending timer fires.
InitLive == MountedWith(MaxLive)

TimersFire ==
    \A path \in FtagPaths :
        WF_vars(TimerFires(path)) /\ WF_vars(StrayTimerFires(path))

SpecLive == InitLive /\ [][NextMounted]_vars /\ TimersFire

---------------------------------------------------------------------------
(* Properties of the index.                                                *)

Entries(item) == Len(item.freezetags) + Len(item.files)

\* C1: for every item of checksum_map and every freezetag entry of it, the
\* entry's virtual path resolves through path_map to that very item, after
\* any sequence of scan and watcher events of a running program.
C1_EntriesResolve ==
    scan.pc # "crashed" =>
        \A c \in DOMAIN checksum_map :
            \A i \in DOMAIN items[checksum_map[c]].freezetags :
                get_item(State, items[checksum_map[c]].freezetags[i].path)
                    = ItemNode(checksum_map[c])

\* C2: between operations, checksum_map holds exactly the checksums whose
\* item has an entry: no registered item has both lists empty, and every
\* item with an entry is the one registered under its checksum.
C2_ChecksumMapExact ==
    (scan.item = 0 /\ observer = Idle) =>
    /\ \A c \in DOMAIN checksum_map :
           /\ Entries(items[checksum_map[c]]) > 0
           /\ items[checksum_map[c]].checksum = c
    /\ \A id \in DOMAIN items :
           Entries(items[id]) > 0 =>
               /\ items[id].checksum \in DOMAIN checksum_map
               /\ checksum_map[items[id].checksum] = id

\* C3: the item under every key p of abs_path_map has a file entry whose
\* path is p.
C3_AbsPathEntries ==
    scan.pc # "crashed" =>
        \A p \in DOMAIN abs_path_map :
            \E i \in DOMAIN items[abs_path_map[p]].files :
                items[abs_path_map[p]].files[i].path = p

InactivePaths == {inactive_freezetags[i].path : i \in DOMAIN inactive_freezetags}

EntryPaths ==
    UNION {{items[id].freezetags[i].freezetag_path : i \in DOMAIN items[id].freezetags} :
               id \in DOMAIN items}

\* C4: a freezetag path is active or inactive, never both: a key of
\* freezetag_map does not occur in inactive_freezetags, and a path of
\* inactive_freezetags occurs there once, is no key of freezetag_map and is
\* the freezetag path of no entry.
C4_ActiveInactivePartition ==
    scan.pc # "crashed" =>
        /\ DOMAIN freezetag_map \cap InactivePaths = {}
        /\ InactivePaths \cap EntryPaths = {}
        /\ \A i, j \in DOMAIN inactive_freezetags :
               inactive_freezetags[i].path = inactive_freezetags[j].path => i = j

\* What _add_ftag finds at a path: the decoded freezetag the cache gives,
\* or None.
Loaded(path) == cache_getitem(State, path, "ok").ret

\* An add of the freezetag at path would find its root resolving to a node.
Collides(path) ==
    /\ Loaded(path) # None
    /\ Truthy(get_item(State, <<"/">> \o Freezetags[Loaded(path)].root))

\* C5: no two keys of freezetag_map carry the same root; and adding a
\* freezetag whose root resolves to a node appends it to
\* inactive_freezetags and leaves freezetag_map, checksum_map and path_map
\* as they are.
C5_OneOwnerPerRoot ==
    scan.pc # "crashed" =>
        /\ \A p, q \in DOMAIN freezetag_map :
               freezetag_map[p].root = freezetag_map[q].root => p = q
        /\ \A path \in FtagPaths :
               Collides(path) =>
                   LET s == add_ftag(State, path)
                   IN  /\ s.inactive_freezetags =
                              Append(inactive_freezetags,
                                     [root |-> <<"/">> \o Freezetags[Loaded(path)].root,
                                      path |-> path])
                       /\ s.freezetag_map = freezetag_map
                       /\ s.checksum_map = checksum_map
                       /\ s.path_map = path_map

---------------------------------------------------------------------------
(* Properties of the cache and of the FUSE operations.                     *)

Handles(path) == {fh \in DOMAIN fh_map : fh_map[fh].freezetag_path = path}

Pinned(path) == Count(freezetag_refs, path) > 0

\* C6: no freezetag with an open handle or a positive open count leaves the
\* cache by capacity eviction or by a keep-alive timer: whatever an
\* operation removed that way had, when removed, no handle and a count of
\* at most 0.
C6_PinnedNeverEvicted ==
    \A e \in last.evicted :
        e.by \in {"capacity", "timer"} => e.count <= 0 /\ e.handles = 0

\* An insertion found the cache full with a freezetag that has an open
\* handle as its oldest entry, and passed it over.
C6_Witness ==
    /\ last.inserted # {}
    /\ Len(freezetag_cache) > maxsize
    /\ \E path \in Keys(freezetag_cache) \ last.inserted :
           Pinned(path) /\ Handles(path) # {}

\* No handle of the freezetag at path is open, and no load or open of any
\* freezetag is to come.
Settled(path) == quota = 0 /\ Handles(path) = {}

Dropped(path) == ~InCache(freezetag_cache, path) /\ path \notin DOMAIN freezetag_refs

\* C7: once every handle of a freezetag is released and no load or open
\* follows, the freezetag eventually leaves the cache and its reference
\* record is dropped.
C7_KeepAliveEvicts ==
    \A path \in FtagPaths : Settled(path) ~> Dropped(path)

\* C8: after an insertion the cache holds more than maxsize entries only
\* if no entry it held before the insertion is purgeable.
C8_CapacityRespected ==
    (last.inserted # {} /\ Len(freezetag_cache) > maxsize) =>
        \A path \in Keys(freezetag_cache) \ last.inserted :
            ~can_purge_ftag(freezetag_refs, path)

\* A path getattr and open must not find: absent from path_map, or an item
\* that is not live or has no freezetag entry at the path.
NotFound(path) ==
    LET node == get_item(State, path)
    IN  \/ node.kind = "none"
        \/ /\ node.kind = "item"
           /\ \/ ~Live(items[node.id])
              \/ FrozenEntry(items[node.id], path) = 0

\* C10: on a path that is absent, or whose item is not live or has no
\* entry at the path, getattr and open fail with ENOENT and with nothing
\* else; and readdir lists no item that is not live.
C10_NotFoundIsENOENT ==
    Mounted =>
        \A path \in VirtualPaths :
            /\ NotFound(path) =>
                   /\ getattr(State, path) = "ENOENT"
                   /\ \A io \in {"ok", "load_fails", "file_fails"} :
                          open(State, path, io).exc = "ENOENT"
            /\ LET node == get_item(State, path)
               IN  node.kind = "dir" =>
                       \A name \in readdir(State, path) :
                           node.ch[name].kind = "item" =>
                               Live(items[node.ch[name].id])

---------------------------------------------------------------------------
(* Properties of the watcher handlers.                                     *)

\* The places in inactive_freezetags of the tags that target a root.
Queued(root) == {i \in DOMAIN inactive_freezetags : inactive_freezetags[i].root = root}

\* on_deleted for a freezetag file of the directory that has just gone.
DeleteFtag(path) == on_deleted([State EXCEPT !.ftags[path] = "none"], path)

\* Every virtual path the freezetag file at path lists resolves to an item.
Resolves(s, path) ==
    /\ s.ftags[path] # "none"
    /\ LET freezetag == Freezetags[s.ftags[path]]
       IN  \A k \in DOMAIN freezetag.files :
               get_item(s, <<"/">> \o freezetag.root \o freezetag.files[k].path).kind = "item"

\* C11: when the file of an active freezetag is deleted and
\* inactive_freezetags holds tags of its root, on_deleted takes the first
\* of them out of the queue, the others keeping their order, and makes it
\* active: its path is a key of freezetag_map and every virtual path it
\* lists resolves in path_map.
C11_PromotesFirst ==
    scan.pc # "crashed" =>
        \A path \in DOMAIN freezetag_map :
            (Exists(path) /\ Queued(freezetag_map[path].root) # {}) =>
                LET Q == Queued(freezetag_map[path].root)
                    i == CHOOSE i \in Q : \A j \in Q : i <= j
                    promoted == inactive_freezetags[i].path
                    s == DeleteFtag(path)
                IN  /\ s.exc = None
                    /\ s.inactive_freezetags = RemoveAt(inactive_freezetags, i)
                    /\ path \notin DOMAIN s.freezetag_map
                    /\ promoted \in DOMAIN s.freezetag_map
                    /\ Resolves(s, promoted)


\* The virtual paths whose entry came from the freezetag at path.
Provides(path) ==
    {vp \in VirtualPaths :
        LET node == get_item(State, vp)
        IN  /\ node.kind = "item"
            /\ FrozenEntry(items[node.id], vp) # 0
            /\ items[node.id].freezetags[FrozenEntry(items[node.id], vp)].freezetag_path = path}

MoveFile(src, dst) ==
    on_moved([State EXCEPT !.files[dst] = files[src], !.files[src] = "none"], src, dst)

\* C13: after the rename of a tracked content file src to dst,
\* abs_path_map has no key src and holds under dst the item src mapped to;
\* the item's file entries are those it had, with dst where src was (and
\* there was one for src); path_map, checksum_map, freezetag_map,
\* inactive_freezetags and the freezetag entries of every item are as
\* before.
C13_RenameContentFile ==
    scan.pc # "crashed" =>
        \A src \in ContentPaths \cap DOMAIN abs_path_map :
            \A dst \in ContentPaths \ {src} :
                Exists(src) =>
                    LET s == MoveFile(src, dst)
                        id == abs_path_map[src]
                        before == items[id].files
                        after == s.items[id].files
                    IN  /\ s.exc = None
                        /\ src \notin DOMAIN s.abs_path_map
                        /\ s.abs_path_map[dst] = id
                        /\ \E i \in DOMAIN before : before[i].path = src
                        /\ after = [i \in DOMAIN before |->
                                       IF before[i].path = src
                                       THEN FrozenItemFileEntry(dst) ELSE before[i]]
                        /\ s.path_map = path_map
                        /\ s.checksum_map = checksum_map
                        /\ s.freezetag_map = freezetag_map
                        /\ s.inactive_freezetags = inactive_freezetags
                        /\ DOMAIN s.items = DOMAIN items
                        /\ \A k \in DOMAIN items : s.items[k].freezetags = items[k].freezetags

\* The one event since mount was the rename of a.flac, which a freezetag
\* serves at /A/1, to b.flac.
C13_Witness ==
    /\ last.op = "watcher"
    /\ quota = MaxMounted - 1
    /\ files["a.flac"] = "none" /\ files["b.flac"] = "X"
    /\ DOMAIN abs_path_map = {"b.flac"}
    /\ getattr(State, <<"/", "A", "1">>) = "st_file"

\* How many entries of the item registered under a checksum came from
\* the freezetag at path.
EntriesFrom(checksum, path) ==
    IF checksum \notin DOMAIN checksum_map THEN 0
    ELSE Cardinality({i \in DOMAIN items[checksum_map[checksum]].freezetags :
                         items[checksum_map[checksum]].freezetags[i].freezetag_path = path})

\* C17: for every key p of freezetag_map, every checksum of its list is a
\* key of checksum_map and the entries whose freezetag path is p are one
\* per element of the list, each held by the item of that checksum; and no
\* entry of any item carries a freezetag path that is no key of
\* freezetag_map.
C17_ReverseIndexCoherent ==
    scan.pc # "crashed" =>
        /\ \A p \in DOMAIN freezetag_map :
               LET L == freezetag_map[p].checksums
               IN  /\ Range(L) \subseteq DOMAIN checksum_map
                   /\ \A c \in DOMAIN checksum_map \cup Range(L) :
                          EntriesFrom(c, p) = Cardinality({i \in DOMAIN L : L[i] = c})
        /\ EntryPaths \subseteq DOMAIN freezetag_map

---------------------------------------------------------------------------
(* Properties of open, of the timers and of the tree.                      *)

\* The freezetag paths the index refers to.
IndexPaths == DOMAIN freezetag_map \cup InactivePaths \cup EntryPaths

\* open of a virtual path when nothing fails to load or to open, and the
\* handle it adds to fh_map.
Opened(vp) == open(State, vp, "ok")

NewHandle(vp) == Opened(vp).fh_map[NewFh(State)]

\* The entry open finds at a virtual path it serves.
EntryAt(vp) ==
    LET item == items[get_item(State, vp).id]
    IN  item.freezetags[FrozenEntry(item, vp)]

\* C14: with every event of the directory handled, the cache holds under
\* a freezetag path the index refers to what the file at that path holds
\* now, and an open that succeeds with a freezetag is bound to the
\* metadata the file at the freezetag's path now gives for the item's
\* checksum and the target path.
C14_NoStaleFreezetag ==
    (scan.pc # "crashed" /\ observer.pc # "on_created") =>
        /\ \A i \in DOMAIN freezetag_cache :
               freezetag_cache[i].key \in IndexPaths =>
                   freezetag_cache[i].value = ftags[freezetag_cache[i].key]
        /\ (Mounted /\ Cardinality(DOMAIN fh_map) < MaxHandles) =>
               \A vp \in VirtualPaths :
                   (Opened(vp).exc = None /\ NewHandle(vp).freezetag_path # None) =>
                       LET fp == NewHandle(vp).freezetag_path
                       IN  /\ ftags[fp] # "none"
                           /\ NewHandle(vp).metadata =
                                  FindMetadata(Freezetags[ftags[fp]],
                                               items[get_item(State, vp).id].checksum,
                                               SubSeq(vp, 3, Len(vp)))

\* C15: no freezetag path has more than one keep-alive timer that was
\* started and has neither fired nor been cancelled.
C15_OnePendingTimer ==
    \A path \in FtagPaths : timers[path] <= 1

\* C16: an open that succeeds on a virtual path whose entry has a
\* metadata length above 0 binds the handle to metadata: that of a record
\* of the freezetag with the item's checksum and the target path, of the
\* length the entry was created with.
C16_BoundToOwnRecord ==
    (Mounted /\ Cardinality(DOMAIN fh_map) < MaxHandles) =>
        \A vp \in VirtualPaths :
            (Opened(vp).exc = None /\ EntryAt(vp).metadata_len > 0) =>
                LET h == NewHandle(vp)
                    cache == Opened(vp).freezetag_cache
                    freezetag == Freezetags[cache[CacheIndex(cache, h.freezetag_path)].value]
                IN  /\ h.metadata # <<>>
                    /\ SumLen(h.metadata) = EntryAt(vp).metadata_len
                    /\ \E k \in DOMAIN freezetag.files :
                           /\ freezetag.files[k].checksum = items[get_item(State, vp).id].checksum
                           /\ freezetag.files[k].path = SubSeq(vp, 3, Len(vp))
                           /\ freezetag.files[k].metadata = h.metadata

\* The freezetag entries of the registered items, each with its owner.
IndexEntries ==
    UNION {{[id |-> checksum_map[c], i |-> i] :
               i \in DOMAIN items[checksum_map[c]].freezetags} : c \in DOMAIN checksum_map}

\* C18: the assertion of _add_freezetag_entry never fails, and no two
\* freezetag entries of the index have the same virtual path.
C18_AssertNeverFails ==
    /\ last.res # "AssertionError"
    /\ \A e, f \in IndexEntries :
           items[e.id].freezetags[e.i].path = items[f.id].freezetags[f.i].path => e = f

\* C19: "/" resolves to a directory of path_map: getattr gives the
\* directory stat and readdir enumerates it.
C19_RootIsDirectory ==
    scan.pc # "crashed" =>
        /\ get_item(State, <<"/">>).kind = "dir"
        /\ getattr(State, <<"/">>) = "st_dir"
        /\ "AttributeError" \notin readdir(State, <<"/">>)

\* C20: the open count of every freezetag path (0 without a reference
\* record) is the number of handles of fh_map bound to the path, and is
\* not negative.
C20_CountIsHandles ==
    \A path \in FtagPaths :
        /\ Count(freezetag_refs, path) = Cardinality(Handles(path))
        /\ Count(freezetag_refs, path) >= 0

\* The file entries of all items, each with its owner.
FileEntries ==
    UNION {{[id |-> id, i |-> i] : i \in DOMAIN items[id].files} : id \in DOMAIN items}

\* C21: for every item of checksum_map and every file entry of it,
\* abs_path_map holds that item under the entry's path; and no path is
\* that of two file entries, of one item or of two.
C21_NoOrphanNoDuplicate ==
    scan.pc # "crashed" =>
        /\ \A c \in DOMAIN checksum_map :
               \A i \in DOMAIN items[checksum_map[c]].files :
                   LET path == items[checksum_map[c]].files[i].path
                   IN  /\ path \in DOMAIN abs_path_map
                       /\ abs_path_map[path] = checksum_map[c]
        /\ \A e, f \in FileEntries :
               items[e.id].files[e.i].path = items[f.id].files[f.i].path => e = f

---------------------------------------------------------------------------
(* Mutual exclusion.                                                       *)

\* A step of the main thread: of the scan, or a FUSE request that changed
\* something.
MainStep ==
    \/ scan'.pc # scan.pc
    \/ scan'.todo # scan.todo
    \/ scan.item = 0 /\ scan'.item # 0
    \/ last'.op \in {"open", "release"} /\ last' # last

\* A step of a handler on the observer thread.
ObserverStep == observer' # observer \/ (last'.op = "watcher" /\ quota' # quota)

\* C9: the steps of an index mutation do not interleave with those of
\* another: while on_modified is between its two calls the main thread
\* takes no step, and while the scan is between the lookup and the update
\* of _add_path_entry no handler takes a step.
C9_MutatorsExclusive ==
    [][/\ observer.pc # "idle" => ~MainStep
       /\ scan.item # 0 => ~ObserverStep]_vars

====
